---- MODULE Spec2Model ----
(***************************************************************************)
(* A model of code-flattener: main -> extract_repo_content ->              *)
(* process_directory -> scan_directory / create_directory_tree, over a     *)
(* bounded universe of directory trees, pattern lists and flags.           *)
(*                                                                         *)
(* Strings the code inspects character by character (entry names, glob     *)
(* patterns, file bytes) are sequences of one-character strings.  A path   *)
(* below the scan root is the sequence of its entry names.  The box        *)
(* drawing connectors of the tree are written in ASCII: "|-- " stands for  *)
(* U+251C U+2500 U+2500 SPACE, "+-- " for U+2514 U+2500 U+2500 SPACE and   *)
(* "|   " for U+2502 followed by three spaces.                             *)
(***************************************************************************)
EXTENDS Integers, Sequences, FiniteSets

VARIABLES
    pc,             \* position of the single thread of control
    args,           \* the parsed command line (cli.parse_arguments)
    fs,             \* the directory tree at the scan root: path -> kind
    listOrder,      \* the order in which the OS enumerates directory entries
    stack,          \* os.walk: directories still to be visited
    pending,        \* scan_directory: files of the current directory still to process
    content,        \* scan_directory: the content read for the current file
    all_files,      \* scan_directory: the records collected so far
    files,          \* process_directory: the records scan_directory returned
    directory_tree, \* process_directory: the rendered tree (sequence of lines)
    final_content,  \* process_directory: the dump text
    output,         \* the output area: output/<repoName>, code.txt, metadata.json
    tmpdir,         \* the temporary clone directory: "none", "exists", "deleted"
    cloneCalls,     \* number of times git clone was run
    exc,            \* the exception in flight ("none" when there is none)
    exitCode,       \* the process exit status (-1 while the process runs)
    errlog,         \* the messages logged at level ERROR
    faults          \* number of concurrent changes made to the tree so far

vars == <<pc, args, fs, listOrder, stack, pending, content, all_files, files,
          directory_tree, final_content, output, tmpdir, cloneCalls, exc,
          exitCode, errlog, faults>>

-----------------------------------------------------------------------------
(* Bounds of the model *)

\* at most this many entries (files and directories) exist below the scan root
MaxEntries == 3
\* at most this many concurrent changes hit the tree during one scan
MaxFaults == 1
\* symbolic links the OS follows while resolving one path before it gives up
\* with ELOOP (40 on Linux)
MaxLinkHops == 2

\* is_text_file reads this many bytes
ChunkSize == 1024

-----------------------------------------------------------------------------
(* Characters, names and paths *)

NUL == "\\0"
BadByte == "\\xff"

A == <<"a">>
BM == <<"b", ".", "m">>
Hid == <<".", "h">>
Git == <<".", "g", "i", "t">>
Z == <<"Z">>
Lnk == <<"l">>

Root == <<>>

\* the candidate paths below the scan root
Paths == { <<A>>, <<A, BM>>, <<A, Hid>>, <<Git>>, <<Git, BM>>,
           <<Hid>>, <<Hid, BM>>, <<BM>>, <<Z>>, <<Lnk>>, <<A, Lnk>> }

Parent(p) == SubSeq(p, 1, Len(p) - 1)
Basename(p) == p[Len(p)]

FileKinds == {"text", "empty", "binary", "latenul", "unreadable"}
DirKinds == {"dir", "noperm"}

\* code points of the characters used in names ("sorted" compares by them)
CodePoint == [c \in {".", "/", "Z", "a", "b", "g", "h", "i", "l", "m", "t"} |->
    CASE c = "." -> 46 [] c = "/" -> 47 [] c = "Z" -> 90 [] c = "a" -> 97
      [] c = "b" -> 98 [] c = "g" -> 103 [] c = "h" -> 104 [] c = "i" -> 105
      [] c = "l" -> 108
      [] c = "m" -> 109 [] c = "t" -> 116]

RECURSIVE StrLess(_, _)
\* s < t for Python strings
StrLess(s, t) ==
    IF t = <<>> THEN FALSE
    ELSE IF s = <<>> THEN TRUE
    ELSE IF Head(s) = Head(t) THEN StrLess(Tail(s), Tail(t))
    ELSE CodePoint[Head(s)] < CodePoint[Head(t)]

RECURSIVE sorted(_)
\* sorted(S): the names of S in ascending order
sorted(S) ==
    IF S = {} THEN <<>>
    ELSE LET m == CHOOSE x \in S : \A y \in S \ {x} : StrLess(x, y)
         IN <<m>> \o sorted(S \ {m})

Reverse(s) == [i \in 1..Len(s) |-> s[Len(s) + 1 - i]]

RECURSIVE JoinSep(_)
\* os.path.join / os.path.relpath: the names joined by "/"
JoinSep(p) ==
    IF p = <<>> THEN <<".">>
    ELSE IF Len(p) = 1 THEN p[1]
    ELSE p[1] \o <<"/">> \o JoinSep(Tail(p))

relpath(p) == JoinSep(p)

\* str.startswith('.')
startswithDot(name) == Len(name) > 0 /\ name[1] = "."

-----------------------------------------------------------------------------
(* fnmatch.fnmatchcase, as used by should_exclude and should_include *)

RECURSIVE FirstClose(_, _)
\* the least index j >= from with p[j] = "]", or 0
FirstClose(p, from) ==
    IF from > Len(p) THEN 0
    ELSE IF p[from] = "]" THEN from
    ELSE FirstClose(p, from + 1)

\* p is the pattern after a "[": the index of the "]" closing the class, or 0
ClassEnd(p) ==
    LET j1 == IF Len(p) >= 1 /\ p[1] = "!" THEN 2 ELSE 1
        j2 == IF Len(p) >= j1 /\ p[j1] = "]" THEN j1 + 1 ELSE j1
    IN FirstClose(p, j2)

RECURSIVE fnmatchcase(_, _)
fnmatchcase(s, p) ==
    IF p = <<>> THEN s = <<>>
    ELSE LET c == Head(p)
             rest == Tail(p)
         IN CASE c = "*" ->
                    fnmatchcase(s, rest) \/ (s # <<>> /\ fnmatchcase(Tail(s), p))
              [] c = "?" ->
                    s # <<>> /\ fnmatchcase(Tail(s), rest)
              [] c = "[" ->
                    LET j == ClassEnd(rest)
                    IN IF j = 0
                       THEN s # <<>> /\ Head(s) = "[" /\ fnmatchcase(Tail(s), rest)
                       ELSE LET stuff == SubSeq(rest, 1, j - 1)
                                neg == stuff[1] = "!"
                                chars == IF neg THEN Tail(stuff) ELSE stuff
                                members == { chars[i] : i \in 1..Len(chars) }
                            IN /\ s # <<>>
                               /\ (Head(s) \in members) # neg
                               /\ fnmatchcase(Tail(s), SubSeq(rest, j + 1, Len(rest)))
              [] OTHER ->
                    s # <<>> /\ Head(s) = c /\ fnmatchcase(Tail(s), rest)

\* filters/exclude.py: true iff the relative path matches any exclude pattern
should_exclude(path, exclude_patterns) ==
    \E i \in 1..Len(exclude_patterns) :
        fnmatchcase(relpath(path), exclude_patterns[i])

\* a variant without the rule for the empty list
should_include_NoDefault(path, include_patterns) ==
    \E i \in 1..Len(include_patterns) :
        fnmatchcase(relpath(path), include_patterns[i])

\* filters/include.py: true for an empty list, else iff any pattern matches
should_include(path, include_patterns) ==
    \/ include_patterns = <<>>
    \/ \E i \in 1..Len(include_patterns) :
        fnmatchcase(relpath(path), include_patterns[i])

-----------------------------------------------------------------------------
(* The directory trees, pattern lists and command lines considered *)

\* the kinds each candidate path may have ("absent": no such entry; "link": a
\* symbolic link to the scan root), the two link paths having a kind of linkKinds
ChoicesOf(linkKinds) ==
    [ root : {"dir", "noperm"},
      a    : {"absent", "dir", "noperm"},
      ab   : {"absent", "text", "binary"},
      ah   : {"absent", "text"},
      g    : {"absent", "dir", "noperm"},
      gb   : {"absent", "text"},
      h    : {"absent", "text", "dir"},
      hb   : {"absent", "text"},
      b    : {"absent", "text", "empty", "binary", "latenul", "unreadable"},
      z    : {"absent", "dir"},
      l    : linkKinds,
      al   : linkKinds ]

\* the trees of Spec hold no symbolic link; those of SpecLinks may
TreeChoices == ChoicesOf({"absent"})
LinkTreeChoices == ChoicesOf({"absent", "link"})

TreeOf(r) ==
    [p \in Paths \cup {Root} |->
        CASE p = Root -> r.root
          [] p = <<A>> -> r.a
          [] p = <<A, BM>> -> r.ab
          [] p = <<A, Hid>> -> r.ah
          [] p = <<Git>> -> r.g
          [] p = <<Git, BM>> -> r.gb
          [] p = <<Hid>> -> r.h
          [] p = <<Hid, BM>> -> r.hb
          [] p = <<BM>> -> r.b
          [] p = <<Z>> -> r.z
          [] p = <<Lnk>> -> r.l
          [] p = <<A, Lnk>> -> r.al]

Entries(t) == { p \in Paths : t[p] # "absent" }

\* a tree: every entry lies in a directory, and there are at most MaxEntries.
\* Nothing below a root that cannot be listed is ever read, so a single entry
\* stands for whatever such a root holds.
WellFormed(t) ==
    /\ \A p \in Entries(t) : t[Parent(p)] \in DirKinds
    /\ Cardinality(Entries(t)) <= MaxEntries
    /\ t[Root] = "noperm" => Cardinality(Entries(t)) <= 1

Trees == { t \in { TreeOf(r) : r \in TreeChoices } : WellFormed(t) }

\* the trees that hold a symbolic link to the scan root, at the root (l -> .)
\* or one level down (a/l -> ..)
LinkTrees ==
    { t \in { TreeOf(r) : r \in LinkTreeChoices } :
        WellFormed(t) /\ \E p \in Paths : t[p] = "link" }

\* the tree of a directory that does not exist or is empty
NoTree == [p \in Paths \cup {Root} |-> IF p = Root THEN "dir" ELSE "absent"]

P_starm == <<"*", ".", "m">>
P_a == <<"a">>
P_q == <<"?", ".", "m">>
P_bm == <<"b", ".", "m">>
P_cls == <<"[", "!", ".", "]", "*">>

ExcludeChoices == { <<>>, <<P_starm>>, <<P_a, P_q>> }
IncludeChoices == { <<>>, <<P_bm>>, <<P_cls>> }

\* cli.parse_arguments: input_path is a URL, an existing directory, or neither
ArgChoices ==
    [ input : {"url", "dir", "bad"},
      exclude : ExcludeChoices,
      select : IncludeChoices,
      dry_run : BOOLEAN,
      ignore_hidden : BOOLEAN ]

-----------------------------------------------------------------------------
(* The filesystem as the code reads it *)

\* the bytes of a file of the given kind
Bytes(kind) ==
    CASE kind = "text" -> <<"x", BadByte, "\n", "y">>
      [] kind = "unreadable" -> <<"x", BadByte, "\n", "y">>
      [] kind = "binary" -> <<"x", NUL, "y">>
      [] kind = "latenul" -> [i \in 1..(ChunkSize + 1) |->
                                IF i = ChunkSize + 1 THEN NUL ELSE "x"]
      [] OTHER -> <<>>

\* open(file_path) succeeds
CanOpen(t, p) == t[p] \in {"text", "empty", "binary", "latenul"}

RECURSIVE Resolve(_, _, _, _)
\* path resolution by the OS: from directory cur through the components of
\* rest, following every symbolic link met (hops so far); <<real>> or, when a
\* component is missing, is no directory, or too many links were followed, <<>>
Resolve(t, cur, rest, hops) ==
    IF rest = <<>> THEN <<cur>>
    ELSE LET nxt == Append(cur, Head(rest))
         IN IF nxt \notin DOMAIN t THEN <<>>
            ELSE IF t[nxt] = "link"
            THEN IF hops >= MaxLinkHops THEN <<>>
                 ELSE Resolve(t, Root, Tail(rest), hops + 1)
            ELSE IF t[nxt] \in DirKinds \/ Tail(rest) = <<>>
            THEN Resolve(t, nxt, Tail(rest), hops)
            ELSE <<>>

realpath(t, p) == Resolve(t, Root, p, 0)

\* os.stat: the kind of what p leads to, links followed
stat(t, p) == IF realpath(t, p) = <<>> THEN "absent" ELSE t[realpath(t, p)[1]]

\* os.lstat: the kind of p itself, a link in its last component not followed
lstat(t, p) ==
    IF p = Root THEN t[Root]
    ELSE LET d == realpath(t, Parent(p))
         IN IF d = <<>> \/ Append(d[1], Basename(p)) \notin DOMAIN t THEN "absent"
            ELSE t[Append(d[1], Basename(p))]

\* os.path.islink
islink(t, p) == lstat(t, p) = "link"

\* os.path.isdir (follows symbolic links)
isdir(t, p) == stat(t, p) \in DirKinds

\* os.listdir / os.scandir: the names in directory d, in the order the OS gives
ChildNames(t, d) == { Basename(p) : p \in { q \in Entries(t) : Parent(q) = d } }

\* os.listdir(d): the names in the directory d leads to
listdir(t, d) == ChildNames(t, realpath(t, d)[1])

scandir(t, d, order) ==
    IF order = "asc" THEN sorted(listdir(t, d))
    ELSE Reverse(sorted(listdir(t, d)))

\* utils/filesystem.py is_text_file: no null byte in the first ChunkSize bytes;
\* false when the file cannot be opened
is_text_file(t, p) ==
    /\ CanOpen(t, p)
    /\ LET b == Bytes(t[p])
           chunk == SubSeq(b, 1, IF Len(b) < ChunkSize THEN Len(b) ELSE ChunkSize)
       IN \A i \in 1..Len(chunk) : chunk[i] # NUL

\* decoding as UTF-8 with errors='ignore': invalid bytes are dropped
Decode(b) == SelectSeq(b, LAMBDA c : c # BadByte)

\* the placeholder read_file_content returns when open/read fails
ErrorPlaceholder(p) == <<"Error reading file ">> \o relpath(p) \o <<": ", "[Errno]">>

\* utils/filesystem.py read_file_content
read_file_content(t, p) ==
    IF CanOpen(t, p) THEN Decode(Bytes(t[p])) ELSE ErrorPlaceholder(p)

\* len(content.splitlines())
splitlinesCount(c) ==
    LET n == Cardinality({ i \in 1..Len(c) : c[i] = "\n" })
    IN IF c = <<>> THEN 0
       ELSE IF c[Len(c)] = "\n" THEN n ELSE n + 1

-----------------------------------------------------------------------------
(* Text building: a text is a sequence of tokens, "\n" among them *)

RECURSIVE Join(_, _)
\* sep.join(parts), each part a token sequence
Join(parts, sep) ==
    IF parts = <<>> THEN <<>>
    ELSE IF Len(parts) = 1 THEN parts[1]
    ELSE parts[1] \o <<sep>> \o Join(Tail(parts), sep)

Digit == <<"0", "1", "2", "3", "4", "5", "6", "7", "8", "9">>

RECURSIVE str(_)
\* the decimal form of a natural number
str(n) == IF n < 10 THEN Digit[n + 1] ELSE str(n \div 10) \o Digit[(n % 10) + 1]

Connector(last) == IF last THEN "+-- " ELSE "|-- "
Indent(last) == IF last THEN "    " ELSE "|   "

\* a variant that takes the names as os.listdir gives them, without sorting
TreeEntries_ListingOrder(t, d) ==
    SelectSeq(scandir(t, d, "desc"), LAMBDA n : n # Git)

\* the names build_directory_tree_lines iterates over
TreeEntries(t, d) == sorted(listdir(t, d) \ {Git})

\* a variant that swallows the error without a line
DeniedLines_None(prefix) == <<>>

\* what build_directory_tree_lines returns when os.listdir raises PermissionError
DeniedLines(prefix) == << prefix \o <<"[Permission Denied]">> >>

RECURSIVE build_directory_tree_lines(_, _, _)
\* utils/directory.py build_directory_tree_lines: the lines below dir_path
build_directory_tree_lines(t, dir_path, prefix) ==
    IF stat(t, dir_path) = "noperm" THEN DeniedLines(prefix)
    ELSE LET entries == TreeEntries(t, dir_path)
             n == Len(entries)
             LinesOf(i) ==
                 LET full_path == Append(dir_path, entries[i])
                     line == prefix \o <<Connector(i = n)>> \o entries[i]
                 IN IF isdir(t, full_path)
                    THEN <<line>> \o build_directory_tree_lines(
                                        t, full_path, prefix \o <<Indent(i = n)>>)
                    ELSE <<line>>
             Upto[i \in 0..n] == IF i = 0 THEN <<>> ELSE Upto[i - 1] \o LinesOf(i)
         IN Upto[n]

\* utils/directory.py create_directory_tree
create_directory_tree(t) ==
    <<"Directory structure:", "\n">>
        \o Join(build_directory_tree_lines(t, Root, <<>>), "\n")

Sep48 == "================================================"
separator == <<Sep48, "\n">>

\* extraction.py process_directory: the section of one record
Section(f) ==
    separator
        \o <<"File: ">> \o f.path
        \o <<" (", str(f.lines), " lines, ", str(f.size), " bytes)", "\n">>
        \o separator \o f.content \o <<"\n">>

\* a variant that emits the sections in reverse order
content_sections_Reversed(fl) == [i \in 1..Len(fl) |-> Section(fl[Len(fl) + 1 - i])]

\* extraction.py process_directory: the sections, one per record, in order
content_sections(fl) == [i \in 1..Len(fl) |-> Section(fl[i])]

\* extraction.py process_directory: the dump text
FinalContent(tree, fl) == tree \o <<"\n", "\n">> \o Join(content_sections(fl), "\n")

-----------------------------------------------------------------------------
(* scan_directory *)

\* a variant that keeps hidden directories
FilterDirs_KeepHidden(root, dirs, exclude_patterns, ignore_hidden) ==
    SelectSeq(dirs, LAMBDA d : ~should_exclude(Append(root, d), exclude_patterns))

\* the directories os.walk descends into below root, after the loop body
\* has filtered dirs in place (directory.py lines 59-62)
FilterDirs(root, dirs, exclude_patterns, ignore_hidden) ==
    LET shown == IF ignore_hidden
                 THEN SelectSeq(dirs, LAMBDA d : ~startswithDot(d))
                 ELSE dirs
    IN SelectSeq(shown, LAMBDA d : ~should_exclude(Append(root, d), exclude_patterns))

\* the file names the loop body iterates over (directory.py lines 65-66)
FilterFiles(fnames, ignore_hidden) ==
    IF ignore_hidden
    THEN SelectSeq(fnames, LAMBDA f : ~startswithDot(f))
    ELSE fnames

\* a variant in which a matching include pattern overrides the exclusion
Accepted_IncludeWins(t, file_path, exclude_patterns, include_patterns) ==
    /\ \/ ~should_exclude(file_path, exclude_patterns)
       \/ \E i \in 1..Len(include_patterns) :
            fnmatchcase(relpath(file_path), include_patterns[i])
    /\ should_include(file_path, include_patterns)
    /\ is_text_file(t, file_path)

\* the condition under which a file is recorded (directory.py lines 70-74)
Accepted(t, file_path, exclude_patterns, include_patterns) ==
    /\ ~should_exclude(file_path, exclude_patterns)
    /\ should_include(file_path, include_patterns)
    /\ is_text_file(t, file_path)

\* the record of an accepted file (directory.py lines 76-81)
FileInfo(t, file_path, c) ==
    [ path |-> relpath(file_path),
      content |-> c,
      size |-> Len(Bytes(t[file_path])),
      lines |-> splitlinesCount(c) ]

Paths_(root, names) == [i \in 1..Len(names) |-> Append(root, names[i])]

\* the directories of dirs that os.walk walks into: with followlinks left
\* False, those that are no symbolic links
Descended(t, dir_paths) == SelectSeq(dir_paths, LAMBDA p : ~islink(t, p))

\* where control goes when process_directory returns or raises
Leave(e) ==
    IF args.input = "url" THEN "with_exit"
    ELSE IF e = "none" THEN "main_return" ELSE "main_except"

\* after a file is done: the next file, or back to os.walk
NextFile(rest) == IF rest = <<>> THEN "walk" ELSE "classify"

\* os.walk yields the next directory and the loop body filters dirs and files
WalkDir ==
    /\ pc = "walk"
    /\ stack # <<>>
    /\ LET root == Head(stack)
       IN IF fs[root] = "noperm"
          THEN \* scandir raises, os.walk ignores the error and yields nothing
               /\ stack' = Tail(stack)
               /\ pending' = <<>>
               /\ pc' = "walk"
          ELSE LET listing == scandir(fs, root, listOrder)
                   dirs == SelectSeq(listing, LAMBDA n : isdir(fs, Append(root, n)))
                   fnames == SelectSeq(listing, LAMBDA n : ~isdir(fs, Append(root, n)))
                   kept == FilterDirs(root, dirs, args.exclude, args.ignore_hidden)
                   todo == FilterFiles(fnames, args.ignore_hidden)
               IN /\ stack' = Descended(fs, Paths_(root, kept)) \o Tail(stack)
                  /\ pending' = Paths_(root, todo)
                  /\ pc' = NextFile(todo)
    /\ UNCHANGED <<args, fs, listOrder, content, all_files, files, directory_tree,
                   final_content, output, tmpdir, cloneCalls, exc, exitCode,
                   errlog, faults>>

\* the if of lines 70-74 for the next file
Classify ==
    /\ pc = "classify"
    /\ IF Accepted(fs, Head(pending), args.exclude, args.select)
       THEN pc' = "read" /\ pending' = pending
       ELSE pc' = NextFile(Tail(pending)) /\ pending' = Tail(pending)
    /\ UNCHANGED <<args, fs, listOrder, stack, content, all_files, files,
                   directory_tree, final_content, output, tmpdir, cloneCalls,
                   exc, exitCode, errlog, faults>>

\* content = read_file_content(file_path)
ReadContent ==
    /\ pc = "read"
    /\ content' = read_file_content(fs, Head(pending))
    /\ pc' = "getsize"
    /\ UNCHANGED <<args, fs, listOrder, stack, pending, all_files, files,
                   directory_tree, final_content, output, tmpdir, cloneCalls,
                   exc, exitCode, errlog, faults>>

\* os.path.getsize(file_path) raises when the file is gone (directory.py line 79)
GetSizeRaises == fs[Head(pending)] = "absent"

\* file_info is built and appended, unless os.path.getsize raises
GetSize ==
    /\ pc = "getsize"
    /\ IF GetSizeRaises
       THEN /\ exc' = "FileNotFoundError"
            /\ pc' = Leave("FileNotFoundError")
            /\ UNCHANGED <<all_files, pending>>
       ELSE /\ all_files' = Append(all_files, FileInfo(fs, Head(pending), content))
            /\ pending' = Tail(pending)
            /\ pc' = NextFile(Tail(pending))
            /\ exc' = exc
    /\ content' = <<>>
    /\ UNCHANGED <<args, fs, listOrder, stack, files, directory_tree,
                   final_content, output, tmpdir, cloneCalls, exitCode, errlog,
                   faults>>

\* os.walk is exhausted: scan_directory returns all_files
ScanReturn ==
    /\ pc = "walk"
    /\ stack = <<>>
    /\ files' = all_files
    /\ pc' = "tree"
    /\ UNCHANGED <<args, fs, listOrder, stack, pending, content, all_files,
                   directory_tree, final_content, output, tmpdir, cloneCalls,
                   exc, exitCode, errlog, faults>>

\* another process deletes the file being processed
FaultDelete ==
    /\ pc \in {"classify", "read", "getsize"}
    /\ faults < MaxFaults
    /\ fs[Head(pending)] \in FileKinds
    /\ fs' = [fs EXCEPT ![Head(pending)] = "absent"]
    /\ faults' = faults + 1
    /\ UNCHANGED <<pc, args, listOrder, stack, pending, content, all_files, files,
                   directory_tree, final_content, output, tmpdir, cloneCalls,
                   exc, exitCode, errlog>>

\* another process takes away the read permission of the file being processed
FaultChmod ==
    /\ pc \in {"classify", "read", "getsize"}
    /\ faults < MaxFaults
    /\ fs[Head(pending)] = "text"
    /\ fs' = [fs EXCEPT ![Head(pending)] = "unreadable"]
    /\ faults' = faults + 1
    /\ UNCHANGED <<pc, args, listOrder, stack, pending, content, all_files, files,
                   directory_tree, final_content, output, tmpdir, cloneCalls,
                   exc, exitCode, errlog>>

-----------------------------------------------------------------------------
(* process_directory *)

\* process_directory is entered: scan_directory starts its walk at the root
EnterProcess ==
    /\ pc' = "walk"
    /\ stack' = <<Root>>
    /\ pending' = <<>>
    /\ all_files' = <<>>

\* directory_tree = create_directory_tree(path)
RenderTree ==
    /\ pc = "tree"
    /\ directory_tree' = create_directory_tree(fs)
    /\ pc' = "format"
    /\ UNCHANGED <<args, fs, listOrder, stack, pending, content, all_files, files,
                   final_content, output, tmpdir, cloneCalls, exc, exitCode,
                   errlog, faults>>

\* whether process_directory returns before writing (extraction.py lines 43-45)
SkipsWrites(a) == a.dry_run

\* final_content is built; a dry run returns here
BuildDump ==
    /\ pc = "format"
    /\ final_content' = FinalContent(directory_tree, files)
    /\ pc' = IF SkipsWrites(args) THEN Leave("none") ELSE "write_code"
    /\ UNCHANGED <<args, fs, listOrder, stack, pending, content, all_files, files,
                   directory_tree, output, tmpdir, cloneCalls, exc, exitCode,
                   errlog, faults>>

\* code.txt is opened and written, or open raises
WriteCode ==
    /\ pc = "write_code"
    /\ \/ /\ output' = [output EXCEPT !.code = <<final_content>>]
          /\ pc' = "write_meta"
          /\ exc' = exc
       \/ /\ exc' = "OSError"
          /\ pc' = Leave("OSError")
          /\ output' = output
    /\ UNCHANGED <<args, fs, listOrder, stack, pending, content, all_files, files,
                   directory_tree, final_content, tmpdir, cloneCalls, exitCode,
                   errlog, faults>>

\* metadata.json is opened and written, or open raises
WriteMeta ==
    /\ pc = "write_meta"
    /\ \/ /\ output' = [output EXCEPT !.meta = <<files>>]
          /\ pc' = Leave("none")
          /\ exc' = exc
       \/ /\ exc' = "OSError"
          /\ pc' = Leave("OSError")
          /\ output' = output
    /\ UNCHANGED <<args, fs, listOrder, stack, pending, content, all_files, files,
                   directory_tree, final_content, tmpdir, cloneCalls, exitCode,
                   errlog, faults>>

-----------------------------------------------------------------------------
(* extract_repo_content and main *)

\* a variant that creates the output folder in a dry run too
MakesOutputFolder_Always(a) == TRUE

\* whether extract_repo_content creates output/<repoName> (extraction.py line 76)
MakesOutputFolder(a) == ~a.dry_run

\* os.makedirs(output_folder) unless dry_run; then the branch on the input
MakeOutputFolder ==
    /\ pc = "extract"
    /\ output' = IF MakesOutputFolder(args) THEN [output EXCEPT !.dir = TRUE] ELSE output
    /\ pc' = IF args.input = "url" THEN "mktemp" ELSE "isdir"
    /\ UNCHANGED <<args, fs, listOrder, stack, pending, content, all_files, files,
                   directory_tree, final_content, tmpdir, cloneCalls, exc,
                   exitCode, errlog, faults>>

\* with tempfile.TemporaryDirectory() as tmpdir
MkTemp ==
    /\ pc = "mktemp"
    /\ tmpdir' = "exists"
    /\ pc' = "clone"
    /\ UNCHANGED <<args, fs, listOrder, stack, pending, content, all_files, files,
                   directory_tree, final_content, output, cloneCalls, exc,
                   exitCode, errlog, faults>>

\* what a successful shallow clone leaves in repo_dir: a tree with a .git directory
ClonedTrees == { t \in Trees : t[Root] = "dir" /\ t[<<Git>>] = "dir" }

\* clone_repo succeeds and process_directory is entered
CloneOk ==
    /\ pc = "clone"
    /\ cloneCalls' = cloneCalls + 1
    /\ \E t \in ClonedTrees : fs' = t
    /\ EnterProcess
    /\ UNCHANGED <<args, listOrder, content, files, directory_tree, final_content,
                   output, tmpdir, exc, exitCode, errlog, faults>>

\* git exits non-zero: clone_repo logs the error and re-raises
CloneFail ==
    /\ pc = "clone"
    /\ cloneCalls' = cloneCalls + 1
    /\ errlog' = Append(errlog, "Git clone failed")
    /\ exc' = "CalledProcessError"
    /\ pc' = "with_exit"
    /\ UNCHANGED <<args, fs, listOrder, stack, pending, content, all_files, files,
                   directory_tree, final_content, output, tmpdir, exitCode, faults>>

\* a variant that removes the directory only when the block ends normally
TmpAfterWith_OnlyOnSuccess(e) == IF e = "none" THEN "deleted" ELSE "exists"

\* the state of the temporary directory when the with block is left
TmpAfterWith(e) == "deleted"

\* the with block is left, normally or by an exception: the directory is removed
WithExit ==
    /\ pc = "with_exit"
    /\ tmpdir' = TmpAfterWith(exc)
    /\ fs' = IF tmpdir' = "deleted" THEN NoTree ELSE fs
    /\ pc' = IF exc = "none" THEN "main_return" ELSE "main_except"
    /\ UNCHANGED <<args, listOrder, stack, pending, content, all_files, files,
                   directory_tree, final_content, output, cloneCalls, exc,
                   exitCode, errlog, faults>>

\* the local branch: a path that is no directory raises ValueError
CheckIsDir ==
    /\ pc = "isdir"
    /\ IF args.input = "dir"
       THEN EnterProcess /\ exc' = exc
       ELSE /\ exc' = "ValueError"
            /\ pc' = "main_except"
            /\ UNCHANGED <<stack, pending, all_files>>
    /\ UNCHANGED <<args, fs, listOrder, content, files, directory_tree,
                   final_content, output, tmpdir, cloneCalls, exitCode, errlog,
                   faults>>

\* a variant that reports only a bad input path
ExitStatus_OnlyValueError(e) == IF e = "ValueError" THEN 1 ELSE 0

\* the status main exits with after catching an exception (main_2.py line 30)
ExitStatusOnError(e) == 1

\* extract_repo_content returned: main falls off its end
MainReturn ==
    /\ pc = "main_return"
    /\ exitCode' = 0
    /\ pc' = "exited"
    /\ UNCHANGED <<args, fs, listOrder, stack, pending, content, all_files, files,
                   directory_tree, final_content, output, tmpdir, cloneCalls,
                   exc, errlog, faults>>

\* except Exception: the error is logged and main exits
MainExcept ==
    /\ pc = "main_except"
    /\ errlog' = Append(errlog, "Error: " \o exc)
    /\ exitCode' = ExitStatusOnError(exc)
    /\ pc' = "exited"
    /\ UNCHANGED <<args, fs, listOrder, stack, pending, content, all_files, files,
                   directory_tree, final_content, output, tmpdir, cloneCalls,
                   exc, faults>>

-----------------------------------------------------------------------------
(* The specification *)

\* the output area before the run: empty, or left by an earlier run
NoOutput == [dir |-> FALSE, code |-> <<>>, meta |-> <<>>]
OldOutput == [dir |-> TRUE, code |-> << <<"old">> >>, meta |-> << <<>> >>]

Init ==
    /\ pc = "extract"
    /\ args \in ArgChoices
    /\ fs \in (IF args.input = "dir" THEN Trees ELSE {NoTree})
    /\ listOrder \in {"asc", "desc"}
    /\ stack = <<>>
    /\ pending = <<>>
    /\ content = <<>>
    /\ all_files = <<>>
    /\ files = <<>>
    /\ directory_tree = <<>>
    /\ final_content = <<>>
    /\ output \in {NoOutput, OldOutput}
    /\ tmpdir = "none"
    /\ cloneCalls = 0
    /\ exc = "none"
    /\ exitCode = -1
    /\ errlog = <<>>
    /\ faults = 0

Next ==
    \/ MakeOutputFolder
    \/ MkTemp
    \/ CloneOk
    \/ CloneFail
    \/ CheckIsDir
    \/ WalkDir
    \/ Classify
    \/ ReadContent
    \/ GetSize
    \/ ScanReturn
    \/ FaultDelete
    \/ FaultChmod
    \/ RenderTree
    \/ BuildDump
    \/ WriteCode
    \/ WriteMeta
    \/ WithExit
    \/ MainReturn
    \/ MainExcept

Spec == Init /\ [][Next]_vars

-----------------------------------------------------------------------------
(* Notions the properties are stated in *)

RECURSIVE Segments(_)
\* the "/"-separated segments of a relative path string
Segments(s) ==
    IF ~(\E i \in 1..Len(s) : s[i] = "/") THEN <<s>>
    ELSE LET k == CHOOSE i \in 1..Len(s) :
                      s[i] = "/" /\ \A j \in 1..(i - 1) : s[j] # "/"
         IN <<SubSeq(s, 1, k - 1)>> \o Segments(SubSeq(s, k + 1, Len(s)))

\* scan_directory has returned its records and the tree is as it was scanned
ScanReturned == pc \in {"tree", "format", "write_code", "write_meta"}

\* the relative paths of the records in a list
RecordPaths(fl) == { fl[i].path : i \in 1..Len(fl) }

\* the proper ancestors of p below the root
Ancestors(p) == { SubSeq(p, 1, k) : k \in 1..(Len(p) - 1) }

\* the root-relative path string of p matches some pattern of the list
MatchesAny(p, patterns) ==
    \E i \in 1..Len(patterns) : fnmatchcase(JoinSep(p), patterns[i])

-----------------------------------------------------------------------------
(* C1: exclude precedence *)

\* C1: no record, at any time, has a relative path that matches an exclude
\* pattern - also when the path matches an include pattern.
C1_ExcludePrecedence ==
    \A i \in 1..Len(all_files) : \A j \in 1..Len(args.exclude) :
        ~fnmatchcase(all_files[i].path, args.exclude[j])

\* a scan has returned over a tree with a text file that matches an exclude
\* pattern and an include pattern of a non-empty include list
C1_Witness ==
    /\ ScanReturned
    /\ args.select # <<>>
    /\ \E p \in Paths :
        /\ is_text_file(fs, p)
        /\ MatchesAny(p, args.exclude)
        /\ MatchesAny(p, args.select)
        /\ \A q \in Ancestors(p) : fs[q] = "dir" /\ ~MatchesAny(q, args.exclude)
        /\ fs[Root] = "dir"

-----------------------------------------------------------------------------
(* C2: one bad file never fails the extraction *)

\* C2: when a file is deleted or made unreadable while it is being processed,
\* scan_directory does not raise.
C2_ScanNeverRaises == faults > 0 => exc # "FileNotFoundError"

-----------------------------------------------------------------------------
(* C3: .git is never scanned *)

\* C3: no record has a path segment equal to .git, whatever the configuration.
C3_GitNeverScanned ==
    \A i \in 1..Len(all_files) :
        LET segs == Segments(all_files[i].path)
        IN \A k \in 1..Len(segs) : segs[k] # Git

-----------------------------------------------------------------------------
(* C4: hidden suppression *)

\* C4: with ignore_hidden set, no record has a path segment that starts with
\* "." (so none equal to .git), at any time of the scan.
C4_HiddenSuppression ==
    args.ignore_hidden =>
        \A i \in 1..Len(all_files) :
            LET segs == Segments(all_files[i].path)
            IN \A k \in 1..Len(segs) : ~startswithDot(segs[k]) /\ segs[k] # Git

\* a scan with ignore_hidden has returned records over a tree that holds a
\* text file in a hidden directory, which the patterns would let through
C4_Witness ==
    /\ ScanReturned
    /\ args.ignore_hidden
    /\ files # <<>>
    /\ \E p \in Paths :
        /\ Len(p) = 2
        /\ startswithDot(p[1])
        /\ fs[<<p[1]>>] = "dir"
        /\ ~MatchesAny(<<p[1]>>, args.exclude)
        /\ Accepted(fs, p, args.exclude, args.select)

-----------------------------------------------------------------------------
(* C5: default inclusion *)

\* the walk reaches the directory of p: the root and every ancestor of p can
\* be listed, and no ancestor is pruned as excluded or hidden
Reached(p) ==
    /\ fs[Root] = "dir"
    /\ \A q \in Ancestors(p) :
        /\ fs[q] = "dir"
        /\ ~MatchesAny(q, args.exclude)
        /\ args.ignore_hidden => ~startswithDot(Basename(q))

\* C5 as stated: with no include patterns, every text file whose path matches
\* no exclude pattern and whose name is not hidden (when ignore_hidden is set)
\* is among the returned records.  (Read in the claim's favour: only files in
\* directories that can be listed are considered.)
C5_DefaultInclusion_Original ==
    (ScanReturned /\ args.select = <<>>) =>
        \A p \in Paths :
            ( /\ is_text_file(fs, p)
              /\ ~MatchesAny(p, args.exclude)
              /\ args.ignore_hidden => ~startswithDot(Basename(p))
              /\ \A q \in Ancestors(p) \cup {Root} : fs[q] = "dir" )
            => JoinSep(p) \in RecordPaths(files)

\* C5 (amended): with no include patterns, when the scan returns, every text
\* file whose path matches no exclude pattern, whose name is not hidden (when
\* ignore_hidden is set) and whose directory the walk reaches is among the
\* returned records.
C5_DefaultInclusion ==
    (ScanReturned /\ args.select = <<>>) =>
        \A p \in Paths :
            ( /\ is_text_file(fs, p)
              /\ ~MatchesAny(p, args.exclude)
              /\ args.ignore_hidden => ~startswithDot(Basename(p))
              /\ Reached(p) )
            => JoinSep(p) \in RecordPaths(files)

\* a scan without include patterns and with exclude patterns has returned
\* over a tree with such a file in a subdirectory
C5_Witness ==
    /\ ScanReturned
    /\ args.select = <<>>
    /\ args.exclude # <<>>
    /\ \E p \in Paths :
        /\ Len(p) = 2
        /\ is_text_file(fs, p)
        /\ ~MatchesAny(p, args.exclude)
        /\ args.ignore_hidden => ~startswithDot(Basename(p))
        /\ Reached(p)

-----------------------------------------------------------------------------
(* C6: the clone directory is always removed *)

\* extract_repo_content has returned or propagated its exception
ExtractLeft == pc \in {"main_return", "main_except", "exited"}

\* C6: for a URL input, once extract_repo_content has returned or raised
\* after creating the temporary directory, that directory is deleted.
C6_TmpDirRemoved ==
    (ExtractLeft /\ (args.input = "url" \/ tmpdir # "none")) => tmpdir = "deleted"

\* extract_repo_content was left by the exception the scan raised inside the
\* with block, and the temporary directory is gone
C6_Witness ==
    /\ pc = "main_except"
    /\ args.input = "url"
    /\ exc = "FileNotFoundError"
    /\ tmpdir = "deleted"

-----------------------------------------------------------------------------
(* C7: a dry run writes nothing *)

\* C7: in a dry run no step changes the output area (the folder is not
\* created, code.txt and the metadata file are neither created nor modified),
\* and a dry run that succeeds has rendered the tree and built the dump.
C7_DryRunWritesNothing ==
    /\ [][args.dry_run => output' = output]_vars
    /\ []((args.dry_run /\ pc = "exited" /\ exitCode = 0) =>
            (directory_tree # <<>> /\ final_content # <<>>))

\* a dry run over a tree with accepted files has succeeded, with the output
\* of an earlier run still in place
C7_Witness ==
    /\ args.dry_run
    /\ pc = "exited"
    /\ exitCode = 0
    /\ files # <<>>
    /\ output = OldOutput

-----------------------------------------------------------------------------
(* C8: exit status *)

\* clone_repo has failed in this run
CloneFailed == \E i \in 1..Len(errlog) : errlog[i] = "Git clone failed"

\* C8: main exits with 0 exactly when the extraction raised nothing and with
\* 1, after logging the error, otherwise - in particular for a bad input path
\* and for a failed clone; git clone is run at most once.
C8_ExitStatus ==
    /\ cloneCalls <= 1
    /\ pc # "exited" => exitCode = -1
    /\ pc = "exited" =>
        /\ exitCode \in {0, 1}
        /\ exitCode = 0 <=> exc = "none"
        /\ args.input = "bad" => exitCode = 1
        /\ CloneFailed => (exitCode = 1 /\ cloneCalls = 1)
        /\ exitCode = 1 => (errlog # <<>> /\ errlog[Len(errlog)] = "Error: " \o exc)

\* main has exited after a failed clone
C8_Witness ==
    /\ pc = "exited"
    /\ CloneFailed
    /\ exitCode = 1
    /\ cloneCalls = 1

-----------------------------------------------------------------------------
(* C9: a directory that cannot be listed *)

RECURSIVE SplitLines(_)
\* text.split("\n")
SplitLines(text) ==
    IF ~(\E i \in 1..Len(text) : text[i] = "\n") THEN <<text>>
    ELSE LET k == CHOOSE i \in 1..Len(text) :
                      text[i] = "\n" /\ \A j \in 1..(i - 1) : text[j] # "\n"
         IN <<SubSeq(text, 1, k - 1)>> \o SplitLines(SubSeq(text, k + 1, Len(text)))

\* the lines of the rendered tree below its header line
TreeBody == SelectSeq(Tail(SplitLines(directory_tree)), LAMBDA l : l # <<>>)

\* the nesting depth of a line: the number of indentation tokens it starts with
Depth(l) == Cardinality({ i \in 1..Len(l) : l[i] \in {"|   ", "    "} })

IsDeniedLine(l) == l[Len(l)] = "[Permission Denied]"

\* the entry name an entry line shows after its connector
EntryName(l) == SubSeq(l, Depth(l) + 2, Len(l))

\* what line l says, given the rows of the lines above it: whether it is a
\* "[Permission Denied]" line, its depth and length, the index of the entry
\* line it hangs under (0: the root), the directory it belongs to (the path of
\* that entry), and for an entry line its connector, name and path
RowOf(l, above) ==
    LET d == Depth(l)
        up == { j \in 1..Len(above) : ~above[j].denied /\ above[j].depth = d - 1 }
        parent == IF up = {} THEN 0 ELSE CHOOSE j \in up : \A i \in up : i <= j
        dir == IF parent = 0 THEN Root ELSE above[parent].path
    IN [ denied |-> IsDeniedLine(l),
         depth |-> d,
         len |-> Len(l),
         parent |-> parent,
         dir |-> dir,
         connector |-> l[d + 1],
         name |-> EntryName(l),
         path |-> Append(dir, EntryName(l)) ]

RECURSIVE Rows(_, _)
\* the rows of the lines of L, those of the first Len(acc) lines being acc
Rows(L, acc) ==
    IF Len(acc) = Len(L) THEN acc
    ELSE Rows(L, Append(acc, RowOf(L[Len(acc) + 1], acc)))

\* the rendered tree, read back line by line
TreeRows == Rows(TreeBody, <<>>)

\* the renderer gets to d: d is not in or below .git, and every directory
\* above d can be listed
Shown(d) ==
    /\ \A i \in 1..Len(d) : d[i] # Git
    /\ \A k \in 0..(Len(d) - 1) : fs[SubSeq(d, 1, k)] = "dir"

\* the tree has just been rendered from the tree that was scanned (the steps
\* that follow in process_directory change neither the tree text, the records
\* nor the filesystem)
Rendered == pc = "format"

IsPrefix(d, p) == Len(d) <= Len(p) /\ SubSeq(p, 1, Len(d)) = d

-----------------------------------------------------------------------------
(* C10: the dump and the records correspond *)

RECURSIVE Ascending(_)
\* the numbers of a finite set in ascending order
Ascending(S) ==
    IF S = {} THEN <<>>
    ELSE LET m == CHOOSE x \in S : \A y \in S : x <= y
         IN <<m>> \o Ascending(S \ {m})

\* the positions of the section headers in a dump text
HeaderPositions(text) == Ascending({ i \in 1..Len(text) : text[i] = "File: " })

\* the text of the section a record is expected to have
ExpectedSection(f) ==
    <<Sep48, "\n", "File: ">> \o f.path
        \o <<" (", str(f.lines), " lines, ", str(f.size), " bytes)", "\n">>
        \o <<Sep48, "\n">> \o f.content \o <<"\n">>

\* text holds exactly part from position i on
HoldsAt(text, i, part) ==
    /\ i >= 1
    /\ i + Len(part) - 1 <= Len(text)
    /\ SubSeq(text, i, i + Len(part) - 1) = part

\* process_directory has written both files
Written ==
    /\ ~args.dry_run
    /\ exc = "none"
    /\ pc \in {"with_exit", "main_return", "exited"}

\* C10: once the dump is built, it holds one section per record of the scan,
\* in the order of the records: the k-th header in the text opens the section
\* of the k-th record (separator, header with path, lines and size, separator,
\* content), the sections do not overlap, and there are no further separator
\* lines; code.txt receives that dump and the metadata the same records in
\* the same order.
C10_DumpMatchesRecords ==
    /\ final_content # <<>> =>
        LET pos == HeaderPositions(final_content)
            start(k) == pos[k] - 2
            stop(k) == start(k) + Len(ExpectedSection(files[k])) - 1
        IN /\ files = all_files
           /\ Len(pos) = Len(files)
           /\ \A k \in 1..Len(pos) :
                /\ HoldsAt(final_content, start(k), ExpectedSection(files[k]))
                /\ k < Len(pos) => stop(k) < start(k + 1)
           /\ Cardinality({ i \in 1..Len(final_content) : final_content[i] = Sep48 })
                = 2 * Len(files)
           /\ HoldsAt(final_content, 1, directory_tree)
    /\ Written => (output.code = <<final_content>> /\ output.meta = <<files>>)

\* both files were written for a scan that returned two different records
C10_Witness ==
    /\ Written
    /\ pc = "exited"
    /\ Len(files) >= 2
    /\ files[1] # files[2]
    /\ output.meta = <<files>>

-----------------------------------------------------------------------------
(* C11: the dump does not depend on the order of enumeration *)

RECURSIVE WalkRecords(_, _, _, _)
\* the records the loop over os.walk appends for the directories still to be
\* walked, when the OS lists every directory in the given order and nothing
\* changes the tree meanwhile
WalkRecords(t, todo_dirs, a, order) ==
    IF todo_dirs = <<>> THEN <<>>
    ELSE LET root == Head(todo_dirs)
         IN IF t[root] = "noperm"
            THEN WalkRecords(t, Tail(todo_dirs), a, order)
            ELSE LET listing == scandir(t, root, order)
                     dirs == SelectSeq(listing, LAMBDA n : isdir(t, Append(root, n)))
                     fnames == SelectSeq(listing, LAMBDA n : ~isdir(t, Append(root, n)))
                     kept == FilterDirs(root, dirs, a.exclude, a.ignore_hidden)
                     todo == FilterFiles(fnames, a.ignore_hidden)
                     taken == SelectSeq(Paths_(root, todo),
                                  LAMBDA p : Accepted(t, p, a.exclude, a.select))
                     infos == [i \in 1..Len(taken) |->
                                 FileInfo(t, taken[i], read_file_content(t, taken[i]))]
                 IN infos \o WalkRecords(
                               t, Descended(t, Paths_(root, kept)) \o Tail(todo_dirs),
                               a, order)

\* utils/directory.py scan_directory as a function of the tree, the
\* configuration and the order of enumeration
scan_directory(t, a, order) == WalkRecords(t, <<Root>>, a, order)

\* extraction.py process_directory up to final_content, as a function of the
\* same three
process_directory(t, a, order) ==
    FinalContent(create_directory_tree(t), scan_directory(t, a, order))

\* the dump has been built and the tree is still the one that was scanned:
\* no other process has touched it and a clone has not been removed yet
DumpOfUnchangedTree == final_content # <<>> /\ faults = 0 /\ tmpdir # "deleted"

\* the run agrees with the function: the steps of the walk build the records
\* scan_directory gives for the order in use, and the dump is the one
\* process_directory gives
RunIsFunction ==
    /\ (ScanReturned /\ faults = 0) => files = scan_directory(fs, args, listOrder)
    /\ DumpOfUnchangedTree => final_content = process_directory(fs, args, listOrder)

\* C11: the dump built over an unchanged tree is the one a run with the same
\* configuration builds under any order of enumeration: the text is a function
\* of the tree and the configuration only.
C11_OrderIndependent ==
    DumpOfUnchangedTree =>
        \A order \in {"asc", "desc"} :
            final_content = process_directory(fs, args, order)

-----------------------------------------------------------------------------
(* C12: the order of the rendered tree *)

\* the entry lines of the rendered tree T (all but "[Permission Denied]" lines)
EntryLines(T) == { k \in 1..Len(T) : ~T[k].denied }

\* the entry lines of the directory level that entry line k belongs to
Level(T, k) ==
    { j \in EntryLines(T) : T[j].depth = T[k].depth /\ T[j].parent = T[k].parent }

\* C12: in the rendered tree, every directory level shows exactly the entries
\* of its directory other than .git, each once, in strictly ascending
\* code-point order of their names from top to bottom; the last entry line of
\* a level carries the last-entry connector and every other one the
\* middle-entry connector; no entry line names .git.
C12_TreeOrdering ==
    Rendered =>
        LET T == TreeRows
        IN \A k \in EntryLines(T) :
            LET level == Level(T, k)
            IN /\ T[k].name # Git
               /\ { T[j].name : j \in level } = ChildNames(fs, T[k].dir) \ {Git}
               /\ \A j \in level : j < k => StrLess(T[j].name, T[k].name)
               /\ T[k].connector =
                    (IF \A j \in level : j <= k THEN "+-- " ELSE "|-- ")

\* a rendered root that holds .git, "Z" and "a": the tree shows Z, then a
C12_Witness ==
    /\ Rendered
    /\ fs[<<Git>>] # "absent"
    /\ fs[<<Z>>] # "absent"
    /\ fs[<<A>>] # "absent"
    /\ LET L == TreeBody
       IN /\ Len(L) = 2
          /\ L[1] = <<"|-- ">> \o Z
          /\ L[2] = <<"+-- ">> \o A

-----------------------------------------------------------------------------
(* C13: symbolic links that lead back to the scan root *)

\* a run over a directory that holds a symbolic link to the scan root
InitLinks ==
    /\ pc = "extract"
    /\ args \in ArgChoices
    /\ fs \in (IF args.input = "dir" THEN LinkTrees ELSE {NoTree})
    /\ listOrder \in {"asc", "desc"}
    /\ stack = <<>>
    /\ pending = <<>>
    /\ content = <<>>
    /\ all_files = <<>>
    /\ files = <<>>
    /\ directory_tree = <<>>
    /\ final_content = <<>>
    /\ output \in {NoOutput, OldOutput}
    /\ tmpdir = "none"
    /\ cloneCalls = 0
    /\ exc = "none"
    /\ exitCode = -1
    /\ errlog = <<>>
    /\ faults = 0

SpecLinks == InitLinks /\ [][Next]_vars

\* the path p, as the traversal spells it, passes through a symbolic link:
\* one of its proper prefixes is a link
ThroughLink(p) == \E k \in 1..(Len(p) - 1) : islink(fs, SubSeq(p, 1, k))

\* C13: neither walk follows a symbolic link back to an ancestor: the scanner
\* never has a directory to walk or a file to examine whose path passes
\* through a link, and the rendered tree has no line below a line that shows a
\* link; so each real entry is shown by at most one line of the tree and
\* recorded at most once.
C13_NoLinkFollowed ==
    /\ \A i \in 1..Len(stack) : ~ThroughLink(stack[i]) /\ ~islink(fs, stack[i])
    /\ \A i \in 1..Len(pending) : ~ThroughLink(pending[i])
    /\ \A i, j \in 1..Len(all_files) : all_files[i].path = all_files[j].path => i = j
    /\ Rendered =>
        LET T == TreeRows
        IN /\ \A k \in EntryLines(T) : ~ThroughLink(T[k].path)
           /\ \A j, k \in EntryLines(T) :
                realpath(fs, T[j].dir) = realpath(fs, T[k].dir)
                    /\ T[j].name = T[k].name => j = k

====
